---- MODULE Spec2Model ----
(***************************************************************************)
(* dxf2elmt: conversion of a DXF drawing into a QElectroTech element.      *)
(*                                                                         *)
(* Two state machines share this module.                                   *)
(*   Spec      one call of convert_dxf_file (src/lib.rs) or one run of the *)
(*             command line program (src/main.rs): load, count, render,    *)
(*             create and write the output file, report.                   *)
(*   SpecText  the MTEXT normaliser of src/qelmt/dynamictext.rs applied to *)
(*             a raw text.                                                 *)
(* A text is a sequence of characters, a character a string of length one. *)
(* An Option is a sequence of length 0 (None) or 1 (Some).                 *)
(***************************************************************************)
EXTENDS Integers, Sequences, FiniteSets, TLC

\* ---------------------------------------------------------------- bounds

\* Longest entity list of an enumerated drawing.
MaxEntities == 2
\* Most file names on one command line.
MaxFiles == 2
\* Largest elapsed time a call reports, in milliseconds.
MaxElapsedMs == 1
\* Longest enumerated raw text.
MaxLen == 4

VARIABLES
    caller,       \* "lib": convert_dxf_file is called; "cli": main runs; "none"
    pc,           \* position in the call or run
    options,      \* ConversionOptions / Args: verbose, info
    n_files,      \* cli: number of file names given
    file_idx,     \* cli: index of the file the loop is at
    drawing,      \* the loaded drawing: its entities' kinds, in order
    counts,       \* the eleven counters
    xml_content,  \* lib: Option of the rendered markup
    fs_created,   \* output files created so far
    fs_written,   \* output files written so far
    result,       \* lib: Option of the ConversionResult returned
    err,          \* the failure returned, "" when none
    stdout,       \* cli: what was printed, in order
    file_path,    \* the path of the input file of the call
    message,      \* the description of the failure or of the success
    q_elmt,       \* Option of the Definition built from the drawing
    raw,          \* text: the raw MTEXT string
    value,        \* text: the normalised string
    tpc,          \* text: position
    mtxt,         \* font: the text fields of an MTEXT entity
    family,       \* font: the font family of the DynamicText built from it
    fpc,          \* font: position
    ent,          \* build: the text-bearing entity handed to DTextBuilder
    dtext,        \* build: Option of the DynamicText
    dxml,         \* build: Option of the attributes of its dynamic_text element
    bnds,         \* build: Option of the last answers of the bound queries
    bpc,          \* build: position
    scan_input,   \* scan: the &str both text functions are called with
    norm_pos,     \* scan: normalize_mtext, the position of the chars iterator
    norm_out,     \* scan: normalize_mtext, out
    scan_i,       \* scan: extract_mtext_font, i
    scan_start,   \* scan: extract_mtext_font, start
    scan_result,  \* scan: extract_mtext_font, Option of what it returned
    xpc,          \* scan: position
    selected_path,    \* desktop: signal
    last_output_dir,  \* desktop: signal
    verbose_signal,   \* desktop: the signal verbose
    is_processing,    \* desktop: signal
    status,           \* desktop: signal
    preview_stats,    \* desktop: signal
    tasks             \* desktop: the spawned tasks not yet polled, oldest first

convVars == <<caller, pc, options, n_files, file_idx, drawing, counts,
              xml_content, fs_created, fs_written, result, err, stdout,
              file_path, message, q_elmt>>
textVars == <<raw, value, tpc>>
fontVars == <<mtxt, family, fpc>>
buildVars == <<ent, dtext, dxml, bnds, bpc>>
scanVars == <<scan_input, norm_pos, norm_out, scan_i, scan_start, scan_result, xpc>>
deskVars == <<selected_path, last_output_dir, verbose_signal, is_processing,
              status, preview_stats, tasks>>
vars == <<caller, pc, options, n_files, file_idx, drawing, counts,
          xml_content, fs_created, fs_written, result, err, stdout,
          file_path, message, q_elmt,
          raw, value, tpc, mtxt, family, fpc, ent, dtext, dxml, bnds, bpc,
          scan_input, norm_pos, norm_out, scan_i, scan_start, scan_result, xpc,
          selected_path, last_output_dir, verbose_signal, is_processing,
          status, preview_stats, tasks>>

None == <<>>
Some(x) == <<x>>

\* The machines that a specification leaves alone.
ConvIdle ==
    /\ caller = "none"
    /\ options = [verbose |-> FALSE, info |-> FALSE]
    /\ n_files = 0
    /\ pc = "idle"
    /\ file_idx = 1
    /\ drawing = <<>>
    /\ counts = [circles |-> 0, lines |-> 0, arcs |-> 0, splines |-> 0,
                 texts |-> 0, ellipses |-> 0, polylines |-> 0,
                 lwpolylines |-> 0, solids |-> 0, blocks |-> 0,
                 unsupported |-> 0]
    /\ xml_content = None
    /\ fs_created = 0
    /\ fs_written = 0
    /\ result = None
    /\ err = ""
    /\ stdout = <<>>
    /\ file_path = <<>>
    /\ message = <<>>
    /\ q_elmt = None
TextIdle == raw = <<>> /\ value = <<>> /\ tpc = "idle"
FontIdle == mtxt = <<>> /\ family = <<>> /\ fpc = "idle"
BuildIdle ==
    ent = <<>> /\ dtext = None /\ dxml = None /\ bnds = None /\ bpc = "idle"
ScanIdle ==
    /\ scan_input = <<>> /\ norm_pos = 1 /\ norm_out = <<>>
    /\ scan_i = 0 /\ scan_start = 0 /\ scan_result = None /\ xpc = "idle"
DeskIdle ==
    /\ selected_path = None /\ last_output_dir = None
    /\ verbose_signal = FALSE /\ is_processing = FALSE
    /\ status = "" /\ preview_stats = None /\ tasks = <<>>

\* ------------------------------------------------------------ the drawing

\* dxf::entities::EntityType: the ten kinds the counting pass names, the two
\* other text-bearing kinds, and ModelPoint for every kind no arm names.
CountedKinds == {"Circle", "Line", "Arc", "Spline", "Text", "Ellipse",
                 "Polyline", "LwPolyline", "Solid", "Insert"}
EntityKinds == CountedKinds \cup {"MText", "AttributeDefinition", "ModelPoint"}

\* The drawing of the end-to-end scenario: 3 circles, 2 lines, 1 spline, 1 insert.
ScenarioDrawing ==
    <<"Circle", "Line", "Circle", "Spline", "Insert", "Line", "Circle">>

Drawings ==
    UNION {[1..n -> EntityKinds] : n \in 0..MaxEntities} \cup {ScenarioDrawing}

ZeroCounts ==
    [circles |-> 0, lines |-> 0, arcs |-> 0, splines |-> 0, texts |-> 0,
     ellipses |-> 0, polylines |-> 0, lwpolylines |-> 0, solids |-> 0,
     blocks |-> 0, unsupported |-> 0]

\* ------------------------------------------------- the counting pass

\* CountEntity without its Insert arm: a block-insert falls through to the
\* catch-all arm.
CountEntity_NoInsertArm(c, e) ==
    CASE e = "Circle"     -> [c EXCEPT !.circles = @ + 1]
      [] e = "Line"       -> [c EXCEPT !.lines = @ + 1]
      [] e = "Arc"        -> [c EXCEPT !.arcs = @ + 1]
      [] e = "Spline"     -> [c EXCEPT !.splines = @ + 1]
      [] e = "Text"       -> [c EXCEPT !.texts = @ + 1]
      [] e = "Ellipse"    -> [c EXCEPT !.ellipses = @ + 1]
      [] e = "Polyline"   -> [c EXCEPT !.polylines = @ + 1]
      [] e = "LwPolyline" -> [c EXCEPT !.lwpolylines = @ + 1]
      [] e = "Solid"      -> [c EXCEPT !.solids = @ + 1]
      [] OTHER            -> [c EXCEPT !.unsupported = @ + 1]

\* One arm of the match in convert_dxf_file: the counter the entity e adds to.
CountEntity(c, e) ==
    CASE e = "Circle"     -> [c EXCEPT !.circles = @ + 1]
      [] e = "Line"       -> [c EXCEPT !.lines = @ + 1]
      [] e = "Arc"        -> [c EXCEPT !.arcs = @ + 1]
      [] e = "Spline"     -> [c EXCEPT !.splines = @ + 1]
      [] e = "Text"       -> [c EXCEPT !.texts = @ + 1]
      [] e = "Ellipse"    -> [c EXCEPT !.ellipses = @ + 1]
      [] e = "Polyline"   -> [c EXCEPT !.polylines = @ + 1]
      [] e = "LwPolyline" -> [c EXCEPT !.lwpolylines = @ + 1]
      [] e = "Solid"      -> [c EXCEPT !.solids = @ + 1]
      [] e = "Insert"     -> [c EXCEPT !.blocks = @ + 1]
      [] OTHER            -> [c EXCEPT !.unsupported = @ + 1]

\* drawing.entities().for_each(...) of convert_dxf_file, from the counters c.
RECURSIVE CountEntities(_, _)
CountEntities(c, es) ==
    IF es = <<>> THEN c
    ELSE CountEntities(CountEntity(c, Head(es)), Tail(es))

\* The same match, as main writes it.
MainCountEntity(c, e) ==
    CASE e = "Circle"     -> [c EXCEPT !.circles = @ + 1]
      [] e = "Line"       -> [c EXCEPT !.lines = @ + 1]
      [] e = "Arc"        -> [c EXCEPT !.arcs = @ + 1]
      [] e = "Spline"     -> [c EXCEPT !.splines = @ + 1]
      [] e = "Text"       -> [c EXCEPT !.texts = @ + 1]
      [] e = "Ellipse"    -> [c EXCEPT !.ellipses = @ + 1]
      [] e = "Polyline"   -> [c EXCEPT !.polylines = @ + 1]
      [] e = "LwPolyline" -> [c EXCEPT !.lwpolylines = @ + 1]
      [] e = "Solid"      -> [c EXCEPT !.solids = @ + 1]
      [] e = "Insert"     -> [c EXCEPT !.blocks = @ + 1]
      [] OTHER            -> [c EXCEPT !.unsupported = @ + 1]

RECURSIVE MainCountEntities(_, _)
MainCountEntities(c, es) ==
    IF es = <<>> THEN c
    ELSE MainCountEntities(MainCountEntity(c, Head(es)), Tail(es))

\* ------------------------------------------------------- the output

\* XMLElement::from(&q_elmt): the element tree of the definition, here its root.
XmlOfDefinition(d) == <<"<definition>">>

\* format!("{}", out_xml): the XML declaration, then the tree.
FormatXml(xml) == <<"<?xml?>">> \o xml

\* let xml_content = if options.verbose { Some(..) } else { None }
XmlContent(opts, xml) == IF opts.verbose THEN Some(FormatXml(xml)) ELSE None

\* WritesFile with the test of verbose lost: the file is always written.
WritesFile_Always(opts) == TRUE

\* if !options.verbose { create and write the output file }
WritesFile(opts) == ~opts.verbose

\* file_writer::create_file(verbose, info, path): the outcomes of creating the
\* file the markup is written to. Without verbose it is the output file named
\* after the input's base name; with verbose no output file appears on disk.
create_file(verbose) ==
    IF verbose THEN {[ok |-> TRUE, output |-> 0]}
    ELSE {[ok |-> TRUE, output |-> 1], [ok |-> FALSE, output |-> 0]}

\* ConversionStats { circles: circle_count, ..., elapsed_ms }
ConversionStats(c, ms) ==
    [circles |-> c.circles, lines |-> c.lines, arcs |-> c.arcs,
     splines |-> c.splines, texts |-> c.texts, ellipses |-> c.ellipses,
     polylines |-> c.polylines, lwpolylines |-> c.lwpolylines,
     solids |-> c.solids, blocks |-> c.blocks,
     unsupported |-> c.unsupported, elapsed_ms |-> ms]

\* Ok(ConversionResult { success: true, message, stats: Some(stats), xml_content })
ConversionResult(c, ms, xc) ==
    [success |-> TRUE, stats |-> Some(ConversionStats(c, ms)), xml_content |-> xc]

\* ------------------------------------------------- the file and its name

\* The values of spline_step a caller hands over: any u32, of which the
\* default, the value below the documented range and one above it.
SplineSteps == {0, 20, 201}

\* A path is the sequence of its components, a component the sequence of
\* its characters: d/a.b.dxf and ..
DrawingPath == << <<"d">>, <<"a", ".", "b", ".", "d", "x", "f">> >>
ParentPath == << <<".", ".">> >>
Paths == {DrawingPath, ParentPath}

\* The file names of the command line: the i-th one.
ArgPath(i) == IF i % 2 = 1 THEN DrawingPath ELSE ParentPath

\* Path::as_os_str, lossily: the components joined by the separator.
RECURSIVE as_os_str(_)
as_os_str(path) ==
    IF path = <<>> THEN <<>>
    ELSE IF Len(path) = 1 THEN path[1]
    ELSE path[1] \o <<"/">> \o as_os_str(Tail(path))

\* Path::file_stem: None when the path ends in "..", else the last
\* component up to its last '.', a '.' in first place not counting.
file_stem(path) ==
    IF path = <<>> \/ path[Len(path)] = <<".", ".">> THEN None
    ELSE LET name == path[Len(path)]
             dots == {i \in 2..Len(name) : name[i] = "."}
         IN  IF dots = {} THEN Some(name)
             ELSE Some(SubSeq(name, 1,
                              (CHOOSE i \in dots : \A j \in dots : j <= i) - 1))

\* friendly_file_name with the whole path taken.
friendly_file_name_WholePath(path) == as_os_str(path)

\* file_path.file_stem().unwrap_or_else(|| file_path.as_os_str())
friendly_file_name(path) ==
    IF file_stem(path) # None THEN file_stem(path)[1] ELSE as_os_str(path)

\* The context of the load failure, the friendly name in its place.
LoadFailure(name) ==
    <<"Failed to load ", name,
      "...\n\tMake sure the file is a valid .dxf file.">>

\* The failure create_file returns.
CreateFailure == <<"file_writer::create_file failed">>

\* The context of the write failure.
WriteFailure == <<"Failed to write output file.">>

\* The message of the successful result.
Success(name) == <<"Successfully converted ", name>>

\* Definition::new(friendly_file_name, spline_step, &drawing): what it is
\* handed.
Definition_new(name, spline_step, d) ==
    [name |-> name, spline_step |-> spline_step, drawing |-> d]

\* ------------------------------------------- convert_dxf_file, step by step

\* Drawing::load_file(file_path) succeeds: the drawing read is d.
Load ==
    /\ caller = "lib" /\ pc = "call"
    /\ \E d \in Drawings :
          /\ drawing' = d
          /\ q_elmt' = Some(Definition_new(friendly_file_name(file_path),
                                           options.spline_step, d))
    /\ pc' = "loaded"
    /\ UNCHANGED <<caller, options, n_files, file_idx, counts, xml_content,
                   fs_created, fs_written, result, err, stdout>>
    /\ UNCHANGED <<file_path, message>>
    /\ UNCHANGED <<textVars, fontVars, buildVars, scanVars, deskVars>>

\* Drawing::load_file(file_path) fails: the call returns the load failure.
LoadFails ==
    /\ caller = "lib" /\ pc = "call"
    /\ pc' = "failed"
    /\ err' = "load"
    /\ message' = LoadFailure(friendly_file_name(file_path))
    /\ UNCHANGED <<caller, options, n_files, file_idx, drawing, counts,
                   xml_content, fs_created, fs_written, result, stdout>>
    /\ UNCHANGED <<file_path, q_elmt>>
    /\ UNCHANGED <<textVars, fontVars, buildVars, scanVars, deskVars>>

\* The counters start at 0 and the pass runs over every entity.
CountPass ==
    /\ caller = "lib" /\ pc = "loaded"
    /\ counts' = CountEntities(ZeroCounts, drawing)
    /\ pc' = "counted"
    /\ UNCHANGED <<caller, options, n_files, file_idx, drawing, xml_content,
                   fs_created, fs_written, result, err, stdout>>
    /\ UNCHANGED <<file_path, message, q_elmt>>
    /\ UNCHANGED <<textVars, fontVars, buildVars, scanVars, deskVars>>

\* The markup is rendered into the result only under verbose.
GenerateXml ==
    /\ caller = "lib" /\ pc = "counted"
    /\ xml_content' = XmlContent(options, XmlOfDefinition(drawing))
    /\ pc' = "generated"
    /\ UNCHANGED <<caller, options, n_files, file_idx, drawing, counts,
                   fs_created, fs_written, result, err, stdout>>
    /\ UNCHANGED <<file_path, message, q_elmt>>
    /\ UNCHANGED <<textVars, fontVars, buildVars, scanVars, deskVars>>

\* file_writer::create_file(false, options.info, file_path)?
CreateOutput ==
    /\ caller = "lib" /\ pc = "generated" /\ WritesFile(options)
    /\ \E o \in create_file(FALSE) :
          /\ fs_created' = fs_created + o.output
          /\ pc' = IF o.ok THEN "created" ELSE "failed"
          /\ err' = IF o.ok THEN err ELSE "create"
          /\ message' = IF o.ok THEN message ELSE CreateFailure
    /\ UNCHANGED <<caller, options, n_files, file_idx, drawing, counts,
                   xml_content, fs_written, result, stdout>>
    /\ UNCHANGED <<file_path, q_elmt>>
    /\ UNCHANGED <<textVars, fontVars, buildVars, scanVars, deskVars>>

\* out_xml.write(&out_file).context("Failed to write output file.")?
WriteOutput ==
    /\ caller = "lib" /\ pc = "created"
    /\ \/ /\ fs_written' = fs_written + 1
          /\ pc' = "written"
          /\ err' = err
          /\ message' = message
       \/ /\ fs_written' = fs_written
          /\ pc' = "failed"
          /\ err' = "write"
          /\ message' = WriteFailure
    /\ UNCHANGED <<caller, options, n_files, file_idx, drawing, counts,
                   xml_content, fs_created, result, stdout>>
    /\ UNCHANGED <<file_path, q_elmt>>
    /\ UNCHANGED <<textVars, fontVars, buildVars, scanVars, deskVars>>

\* The elapsed time is read and the result returned.
Return ==
    /\ caller = "lib"
    /\ \/ pc = "written"
       \/ pc = "generated" /\ ~WritesFile(options)
    /\ \E ms \in 0..MaxElapsedMs :
          result' = Some(ConversionResult(counts, ms, xml_content))
    /\ message' = Success(friendly_file_name(file_path))
    /\ pc' = "done"
    /\ UNCHANGED <<caller, options, n_files, file_idx, drawing, counts,
                   xml_content, fs_created, fs_written, err, stdout>>
    /\ UNCHANGED <<file_path, q_elmt>>
    /\ UNCHANGED <<textVars, fontVars, buildVars, scanVars, deskVars>>

\* ------------------------------------------------------ main, step by step

\* args.file_names.is_empty(): the usage is printed and the process exits 1.
MainNoFiles ==
    /\ caller = "cli" /\ pc = "main_next" /\ n_files = 0
    /\ pc' = "main_exit1"
    /\ UNCHANGED <<caller, options, n_files, file_idx, drawing, counts,
                   xml_content, fs_created, fs_written, result, err, stdout>>
    /\ UNCHANGED <<file_path, message, q_elmt>>
    /\ UNCHANGED <<textVars, fontVars, buildVars, scanVars, deskVars>>

\* The loop takes the next file name and Drawing::load_file succeeds.
MainLoad ==
    /\ caller = "cli" /\ pc = "main_next" /\ file_idx <= n_files
    /\ file_path' = ArgPath(file_idx)
    /\ \E d \in Drawings :
          /\ drawing' = d
          /\ q_elmt' = Some(Definition_new(friendly_file_name(file_path'),
                                           options.spline_step, d))
    /\ stdout' = IF ~options.verbose /\ options.info
                 THEN Append(stdout, "loaded") ELSE stdout
    /\ pc' = "main_loaded"
    /\ UNCHANGED <<caller, options, n_files, file_idx, counts, xml_content,
                   fs_created, fs_written, result, err>>
    /\ UNCHANGED message
    /\ UNCHANGED <<textVars, fontVars, buildVars, scanVars, deskVars>>

\* Drawing::load_file fails: the ? returns the failure from main.
MainLoadFails ==
    /\ caller = "cli" /\ pc = "main_next" /\ file_idx <= n_files
    /\ pc' = "main_err"
    /\ err' = "load"
    /\ file_path' = ArgPath(file_idx)
    /\ message' = LoadFailure(friendly_file_name(file_path'))
    /\ UNCHANGED <<caller, options, n_files, file_idx, drawing, counts,
                   xml_content, fs_created, fs_written, result, stdout>>
    /\ UNCHANGED q_elmt
    /\ UNCHANGED <<textVars, fontVars, buildVars, scanVars, deskVars>>

\* The counters of this file start at 0 and the pass runs over every entity.
MainCountPass ==
    /\ caller = "cli" /\ pc = "main_loaded"
    /\ counts' = MainCountEntities(ZeroCounts, drawing)
    /\ pc' = "main_counted"
    /\ UNCHANGED <<caller, options, n_files, file_idx, drawing, xml_content,
                   fs_created, fs_written, result, err, stdout>>
    /\ UNCHANGED <<file_path, message, q_elmt>>
    /\ UNCHANGED <<textVars, fontVars, buildVars, scanVars, deskVars>>

\* file_writer::create_file(args.verbose, args.info, &file_name)?
MainCreate ==
    /\ caller = "cli" /\ pc = "main_counted"
    /\ \E o \in create_file(options.verbose) :
          /\ fs_created' = fs_created + o.output
          /\ pc' = IF o.ok THEN "main_created" ELSE "main_err"
          /\ err' = IF o.ok THEN err ELSE "create"
    /\ UNCHANGED <<caller, options, n_files, file_idx, drawing, counts,
                   xml_content, fs_written, result, stdout>>
    /\ UNCHANGED <<file_path, message, q_elmt>>
    /\ UNCHANGED <<textVars, fontVars, buildVars, scanVars, deskVars>>

\* out_xml.write(&out_file).context("Failed to write output file.")?
MainWrite ==
    /\ caller = "cli" /\ pc = "main_created"
    /\ \/ /\ fs_written' = fs_written + (IF options.verbose THEN 0 ELSE 1)
          /\ pc' = "main_written"
          /\ err' = err
       \/ /\ fs_written' = fs_written
          /\ pc' = "main_err"
          /\ err' = "write"
    /\ UNCHANGED <<caller, options, n_files, file_idx, drawing, counts,
                   xml_content, fs_created, result, stdout>>
    /\ UNCHANGED <<file_path, message, q_elmt>>
    /\ UNCHANGED <<textVars, fontVars, buildVars, scanVars, deskVars>>

\* The statistics are printed under info, the markup under verbose; the
\* iteration's drawing and counters go out of scope and the loop goes on with
\* the next file name.
MainReport ==
    /\ caller = "cli" /\ pc = "main_written"
    /\ stdout' = stdout \o (IF options.info THEN <<"stats">> ELSE <<>>)
                        \o (IF options.verbose THEN <<"xml">> ELSE <<>>)
    /\ file_idx' = file_idx + 1
    /\ drawing' = <<>>
    /\ counts' = ZeroCounts
    /\ q_elmt' = None
    /\ pc' = "main_next"
    /\ UNCHANGED <<caller, options, n_files, xml_content,
                   fs_created, fs_written, result, err>>
    /\ UNCHANGED <<file_path, message>>
    /\ UNCHANGED <<textVars, fontVars, buildVars, scanVars, deskVars>>

\* Every file name was converted: main returns Ok(()).
MainEnd ==
    /\ caller = "cli" /\ pc = "main_next" /\ n_files > 0 /\ file_idx > n_files
    /\ pc' = "main_ok"
    /\ UNCHANGED <<caller, options, n_files, file_idx, drawing, counts,
                   xml_content, fs_created, fs_written, result, err, stdout>>
    /\ UNCHANGED <<file_path, message, q_elmt>>
    /\ UNCHANGED <<textVars, fontVars, buildVars, scanVars, deskVars>>

\* ------------------------------------------------------ the specification

Init ==
    /\ caller \in {"lib", "cli"}
    /\ options \in [verbose : BOOLEAN, info : BOOLEAN,
                    spline_step : SplineSteps]
    /\ n_files \in (IF caller = "lib" THEN {1} ELSE 0..MaxFiles)
    /\ pc = IF caller = "lib" THEN "call" ELSE "main_next"
    /\ file_idx = 1
    /\ drawing = <<>>
    /\ counts = ZeroCounts
    /\ xml_content = None
    /\ fs_created = 0
    /\ fs_written = 0
    /\ result = None
    /\ err = ""
    /\ stdout = <<>>
    /\ file_path \in (IF caller = "lib" THEN Paths ELSE {<<>>})
    /\ message = <<>>
    /\ q_elmt = None
    /\ TextIdle /\ FontIdle /\ BuildIdle /\ ScanIdle /\ DeskIdle

Next ==
    \/ Load
    \/ LoadFails
    \/ CountPass
    \/ GenerateXml
    \/ CreateOutput
    \/ WriteOutput
    \/ Return
    \/ MainNoFiles
    \/ MainLoad
    \/ MainLoadFails
    \/ MainCountPass
    \/ MainCreate
    \/ MainWrite
    \/ MainReport
    \/ MainEnd

Spec == Init /\ [][Next]_vars

\* ================================================== the MTEXT normaliser

BSL == "\\"
NL == "\n"

\* The characters enumerated raw texts are made of: the backslash, the code
\* letters, the block terminator, the stack separators, the braces and one
\* ordinary letter.
Alphabet == {BSL, "P", "~", "f", "H", "W", "S", ";", "^", "#", "{", "}", "A"}

\* {\fGaramond|b0|i1|c0|p18;Sofrel}
GaramondText ==
    <<"{", BSL, "f", "G", "a", "r", "a", "m", "o", "n", "d", "|", "b", "0",
      "|", "i", "1", "|", "c", "0", "|", "p", "1", "8", ";",
      "S", "o", "f", "r", "e", "l", "}">>
\* A\PB
NewlineText == <<"A", BSL, "P", "B">>
\* \S1^2;
FractionText == <<BSL, "S", "1", "^", "2", ";">>

\* \SA^A#A;B
TwoSeparatorsText == <<BSL, "S", "A", "^", "A", "#", "A", ";", "B">>

ExampleTexts == {GaramondText, NewlineText, FractionText, TwoSeparatorsText}

Texts == UNION {[1..n -> Alphabet] : n \in 0..MaxLen} \cup ExampleTexts

\* chars.peek().copied(): the character at position i, None past the end.
Peek(input, i) == IF i <= Len(input) THEN Some(input[i]) ELSE None

\* while let Some(c) = chars.next() { if c == ';' { break; } ... } entered at
\* position j: the position of the ';' that ends the block, Len(input) + 1
\* when the input ends first.
RECURSIVE BlockEnd(_, _)
BlockEnd(input, j) ==
    IF j > Len(input) THEN j
    ELSE IF input[j] = ";" THEN j
    ELSE BlockEnd(input, j + 1)

\* SimpleEscape with the arm of \~ pushing the tilde itself.
SimpleEscape_TildeKept(c) ==
    CASE c = "P" -> NL
      [] c = "~" -> "~"
      [] c = BSL -> BSL

\* The character pushed for \P, \~ and \\.
SimpleEscape(c) ==
    CASE c = "P" -> NL
      [] c = "~" -> " "
      [] c = BSL -> BSL

\* ControlBlock stopping in front of the ';' instead of consuming it.
ControlBlock_KeepsTerminator(input, i) ==
    [next |-> BlockEnd(input, i + 2), emit |-> <<>>]

\* \f...; \H...; \W...; at position i: the indicator and everything up to and
\* with the ';' is consumed, nothing is pushed.
ControlBlock(input, i) ==
    [next |-> BlockEnd(input, i + 2) + 1, emit |-> <<>>]

\* FlattenStacked splitting at the last separator (rfind for find).
FlattenStacked_LastSeparator(buf) ==
    LET seps == {p \in 1..Len(buf) : buf[p] \in {"^", "#"}}
    IN  IF seps # {}
        THEN LET pos == CHOOSE p \in seps : \A q \in seps : p >= q
             IN  SubSeq(buf, 1, pos - 1) \o <<"/">> \o SubSeq(buf, pos + 1, Len(buf))
        ELSE buf

\* buf.find(['^', '#']) and what is pushed for the block content buf.
FlattenStacked(buf) ==
    LET seps == {p \in 1..Len(buf) : buf[p] \in {"^", "#"}}
    IN  IF seps # {}
        THEN LET pos == CHOOSE p \in seps : \A q \in seps : p <= q
             IN  SubSeq(buf, 1, pos - 1) \o <<"/">> \o SubSeq(buf, pos + 1, Len(buf))
        ELSE buf

\* \S...; at position i: the content up to the ';' is collected into buf and
\* pushed flattened.
StackedBlock(input, i) ==
    LET e == BlockEnd(input, i + 2)
    IN  [next |-> e + 1, emit |-> FlattenStacked(SubSeq(input, i + 2, e - 1))]

\* UnknownCode consuming the character after the backslash.
UnknownCode_ConsumesNext(input, i) == [next |-> i + 2, emit |-> <<BSL>>]

\* UnknownCode dropping the backslash.
UnknownCode_DropsBackslash(input, i) == [next |-> i + 1, emit |-> <<>>]

\* Any other backslash, at position i: the backslash is pushed and the
\* character after it is left for the next iteration.
UnknownCode(input, i) == [next |-> i + 1, emit |-> <<BSL>>]

\* One iteration of the outer while loop, entered with the character at
\* position i: the position the next iteration starts at and what is pushed.
Iteration(input, i) ==
    LET ch == input[i]
        peek == Peek(input, i + 1)
    IN  IF ch = "{" \/ ch = "}" THEN [next |-> i + 1, emit |-> <<>>]
        ELSE IF ch # BSL THEN [next |-> i + 1, emit |-> <<ch>>]
        ELSE IF peek \in {Some("P"), Some("~"), Some(BSL)}
             THEN [next |-> i + 2, emit |-> <<SimpleEscape(peek[1])>>]
        ELSE IF peek \in {Some("f"), Some("H"), Some("W")}
             THEN ControlBlock(input, i)
        ELSE IF peek = Some("S") THEN StackedBlock(input, i)
        ELSE UnknownCode(input, i)

RECURSIVE NormalizeFrom(_, _, _)
NormalizeFrom(input, i, out) ==
    IF i > Len(input) THEN out
    ELSE LET it == Iteration(input, i)
         IN  NormalizeFrom(input, it.next, out \o it.emit)

\* fn normalize_mtext(input: &str) -> String
normalize_mtext(input) == NormalizeFrom(input, 1, <<>>)

\* The positions at which the outer while loop takes a character with
\* chars.next(): the positions outside every control and stacked block and
\* not consumed as the second character of an escape.
RECURSIVE HeadsFrom(_, _)
HeadsFrom(input, i) ==
    IF i > Len(input) THEN {}
    ELSE {i} \cup HeadsFrom(input, Iteration(input, i).next)

LoopHeads(input) == HeadsFrom(input, 1)

\* The raw text of an MTEXT entity is normalised into the text of the
\* DynamicText.
NormalizeText ==
    /\ tpc = "raw"
    /\ value' = normalize_mtext(raw)
    /\ tpc' = "normalized"
    /\ UNCHANGED raw
    /\ UNCHANGED <<convVars, fontVars, buildVars, scanVars, deskVars>>

InitText ==
    /\ raw \in Texts
    /\ value = <<>>
    /\ tpc = "raw"
    /\ ConvIdle /\ FontIdle /\ BuildIdle /\ ScanIdle /\ DeskIdle

NextText == NormalizeText

SpecText == InitText /\ [][NextText]_vars

\* ============================================== the font family of an MTEXT

\* The longest raw text enumerated for the font scan.
MaxFontLen == 3

\* The characters those raw texts are made of: the backslash, the letter of
\* the font code, the block terminator, the field separator, a blank, the
\* braces and one ordinary letter.
FontAlphabet == {BSL, "f", ";", "|", " ", "{", "}", "A"}

\* \f;\fA : the first block is empty, a second one names a family
EmptyFirstBlockText == <<BSL, "f", ";", BSL, "f", "A">>
\* \f A |A;A : blanks around the family
BlankFamilyText == <<BSL, "f", " ", "A", " ", "|", "A", ";", "A">>

\* \f{ A};A : a blank inside the braces
BracedFamilyText == <<BSL, "f", "{", " ", "A", "}", ";", "A">>

FontTexts ==
    UNION {[1..n -> FontAlphabet] : n \in 0..MaxFontLen}
        \cup {GaramondText, EmptyFirstBlockText, BlankFamilyText,
              BracedFamilyText}

\* The MText whose extended chunks are the n first of the parts of t cut at
\* a and at b, and whose primary text is the rest of t.
Cut(t, n, a, b) ==
    IF n = 0 THEN [extended_text |-> <<>>, text |-> t]
    ELSE IF n = 1
    THEN [extended_text |-> <<SubSeq(t, 1, a)>>,
          text |-> SubSeq(t, a + 1, Len(t))]
    ELSE [extended_text |-> <<SubSeq(t, 1, a), SubSeq(t, a + 1, b)>>,
          text |-> SubSeq(t, b + 1, Len(t))]

\* mtxt.extended_text.join("")
RECURSIVE Join(_)
Join(chunks) ==
    IF chunks = <<>> THEN <<>> ELSE Head(chunks) \o Join(Tail(chunks))

\* let mut raw = mtxt.extended_text.join(""); raw.push_str(&mtxt.text);
RawOf(m) == Join(m.extended_text) \o m.text

\* block.split('|').next().unwrap_or(""): the block up to its first '|'.
RECURSIVE FirstField(_)
FirstField(block) ==
    IF block = <<>> \/ Head(block) = "|" THEN <<>>
    ELSE <<Head(block)>> \o FirstField(Tail(block))

\* str::trim_matches: the characters of the set removed from both ends.
RECURSIVE TrimStart(_, _)
TrimStart(s, set) ==
    IF s # <<>> /\ Head(s) \in set THEN TrimStart(Tail(s), set) ELSE s
RECURSIVE TrimEnd(_, _)
TrimEnd(s, set) ==
    IF s # <<>> /\ s[Len(s)] \in set
    THEN TrimEnd(SubSeq(s, 1, Len(s) - 1), set) ELSE s
TrimMatches(s, set) == TrimEnd(TrimStart(s, set), set)

\* The white space of the enumerated texts (str::trim).
Whitespace == {" "}
Braces == {"{", "}"}

\* From the block to the result: the first field trimmed of white space, and
\* when that is not empty trimmed of braces; None when either is empty.
FamilyOfBlock(block) ==
    LET trimmed == TrimMatches(FirstField(block), Whitespace) IN
    IF trimmed # <<>>
    THEN LET stripped == TrimMatches(trimmed, Braces) IN
         IF stripped # <<>> THEN Some(stripped) ELSE None
    ELSE None

\* InFontScan with the scan stopping one byte earlier.
InFontScan_OneShort(p, len) == p + 3 <= len

\* while i + 2 < bytes.len(), with p = i + 1 the 1-based position.
InFontScan(p, len) == p + 2 <= len

\* The scan from position p: the first backslash-f decides (the loop breaks
\* after it whatever the block gives).
RECURSIVE FontScan(_, _)
FontScan(input, p) ==
    IF InFontScan(p, Len(input))
    THEN IF input[p] = BSL /\ input[p + 1] = "f"
         THEN FamilyOfBlock(SubSeq(input, p + 2, BlockEnd(input, p + 2) - 1))
         ELSE FontScan(input, p + 1)
    ELSE None

extract_mtext_font(input) == FontScan(input, 1)

\* The family of FontInfo::default(), a name no raw text can spell.
DefaultFamily == <<"FontInfo::default().family">>

\* build: inferred_family is extract_mtext_font of the raw text, and the font
\* takes it when it is Some.
FontFamily(m) ==
    LET inferred_family == extract_mtext_font(RawOf(m)) IN
    IF inferred_family # None THEN inferred_family[1] ELSE DefaultFamily

InferFamily ==
    /\ fpc = "mtext"
    /\ family' = FontFamily(mtxt)
    /\ fpc' = "built"
    /\ UNCHANGED mtxt
    /\ UNCHANGED <<convVars, textVars, buildVars, scanVars, deskVars>>

InitFont ==
    /\ \E t \in FontTexts : \E n \in 0..2 :
           \E a \in 0..Len(t) : \E b \in a..Len(t) :
               mtxt = Cut(t, n, a, b)
    /\ family = <<>>
    /\ fpc = "mtext"
    /\ ConvIdle /\ TextIdle /\ BuildIdle /\ ScanIdle /\ DeskIdle

NextFont == InferFamily

SpecFont == InitFont /\ [][NextFont]_vars

\* ============================================ DTextBuilder and DynamicText

\* An f64 is the integer number of its 1/Unit parts: every value below is a
\* multiple of 1/Unit, and the point sizes are chosen so that the divisions
\* of the emission are exact.
Unit == 200

Abs(v) == IF v < 0 THEN -v ELSE v

\* rotation.abs().round() as i64: the nearest whole number of degrees, a
\* half going away from zero.
RoundAbs(rotation) == (Abs(rotation) + Unit \div 2) \div Unit

\* BuildRotation with the round() left out (the cast truncates).
BuildRotation_Truncated(rotation) ==
    IF (Abs(rotation) \div Unit) % 360 # 0 THEN rotation - 180 * Unit ELSE 0

\* BuildRotation with the angle brought into [0, 360).
BuildRotation_Wrapped(rotation) ==
    IF RoundAbs(rotation) % 360 # 0
    THEN (rotation - 180 * Unit) % (360 * Unit) ELSE 0

\* rotation: if rotation.abs().round() as i64 % 360 != 0 { rotation - 180.0 }
\*           else { 0.0 }
BuildRotation(rotation) ==
    IF RoundAbs(rotation) % 360 # 0 THEN rotation - 180 * Unit ELSE 0

\* SourceY with the arm of the attribute keeping the sign.
SourceY_AttribKept(kind, y) == IF kind = "Attrib" THEN y ELSE -y

\* The second component of each arm of the match: -location.y for a Text
\* and an Attrib, -insertion_point.y for an MText.
SourceY(kind, y) == -y

\* The tuple the match over self.text gives.
SourceFields(e) ==
    IF e.kind = "MText"
    THEN [x |-> e.location.x, y |-> SourceY(e.kind, e.location.y),
          z |-> e.location.z, rotation |-> e.rotation,
          text_height |-> e.text_height,
          value |-> normalize_mtext(RawOf(e)),
          h_alignment |-> e.h_alignment, v_alignment |-> e.v_alignment,
          reference_rectangle_width |-> e.reference_rectangle_width]
    ELSE [x |-> e.location.x, y |-> SourceY(e.kind, e.location.y),
          z |-> e.location.z, rotation |-> e.rotation,
          text_height |-> e.text_height,
          value |-> e.value,
          h_alignment |-> e.h_alignment, v_alignment |-> e.v_alignment,
          reference_rectangle_width |-> 0]

\* HexColor::BLACK
BLACK == "BLACK"

\* DTextBuilder::build of the entity e with the colour option color, uuid
\* being the value Uuid::new_v4() draws.
build(e, color, uuid) ==
    LET f == SourceFields(e) IN
    [text |-> f.value,
     info_name |-> None,
     x |-> f.x,
     y |-> f.y,
     z |-> f.z,
     rotation |-> BuildRotation(f.rotation),
     uuid |-> uuid,
     h_alignment |-> f.h_alignment,
     font |-> [family |-> IF e.kind = "MText" THEN FontFamily(e)
                          ELSE DefaultFamily,
               point_size |-> f.text_height],
     text_from |-> "UserText",
     v_alignment |-> f.v_alignment,
     frame |-> FALSE,
     text_width |-> -1,
     keep_visual_rotation |-> FALSE,
     color |-> IF color # None THEN color[1] ELSE BLACK,
     reference_rectangle_width |-> f.reference_rectangle_width]

\* scale with the reference rectangle width scaled as well.
scale_WidthToo(t, fact_x, fact_y) ==
    [t EXCEPT !.x = @ * fact_x, !.y = @ * fact_y,
              !.font.point_size = @ * fact_x,
              !.reference_rectangle_width = @ * fact_x]

\* ScaleEntity::scale
scale(t, fact_x, fact_y) ==
    [t EXCEPT !.x = @ * fact_x, !.y = @ * fact_y,
              !.font.point_size = @ * fact_x]

\* left_bound, right_bound, top_bound, bot_bound
Bounds(t) ==
    [left_bound |-> t.x, right_bound |-> Unit,
     top_bound |-> t.y, bot_bound |-> Unit]

\* qelmt::two_dec, applied but not interpreted.
two_dec(v) == [two_dec |-> v]

\* txt.text.graphemes(true).count(): every character of the enumerated
\* texts is one grapheme.
GraphemeCount(text) == Len(text)

\* TxtWidth with the declared width taken from 2.0 on.
TxtWidth_FromThreshold(t) ==
    IF t.reference_rectangle_width >= 2 * Unit
    THEN t.reference_rectangle_width
    ELSE (GraphemeCount(t.text) * t.font.point_size * 3) \div 4

\* txt_width
TxtWidth(t) ==
    IF t.reference_rectangle_width > 2 * Unit
    THEN t.reference_rectangle_width
    ELSE (GraphemeCount(t.text) * t.font.point_size * 3) \div 4

\* x_pos
XPos(t) ==
    LET pt_size == t.font.point_size
        x_pos == t.x + Unit \div 2 - pt_size \div 8 - (405 * Unit) \div 100
    IN  CASE t.h_alignment = "Left" -> x_pos
          [] t.h_alignment = "Center" -> x_pos - TxtWidth(t) \div 2
          [] t.h_alignment = "Right" -> x_pos - TxtWidth(t)

\* y_pos
YPos(t) ==
    LET pt_size == t.font.point_size IN
    t.y + Unit \div 2 - ((7 * pt_size) \div 5 + (26 * Unit) \div 5) + pt_size

\* From<&DynamicText> for XMLElement: the attributes and the text child.
XmlOfDynamicText(t) ==
    [x |-> two_dec(XPos(t)),
     y |-> two_dec(YPos(t)),
     z |-> two_dec(t.z),
     rotation |-> two_dec(t.rotation),
     uuid |-> t.uuid,
     font |-> t.font,
     Halignment |-> t.h_alignment,
     Valignment |-> t.v_alignment,
     text_from |-> t.text_from,
     frame |-> t.frame,
     text_width |-> t.text_width,
     color |-> t.color,
     text |-> t.text]

\* ----------------------------------------------------- the inputs of build

\* 1.5 and -3 / 3 (the source Y of both signs), 1
Locations ==
    {[x |-> (3 * Unit) \div 2, y |-> yy * Unit, z |-> Unit] : yy \in {-3, 3}}

\* 0, 360, -360, 720, 45, 180, 0.4, 0.5 and 359.6 degrees
Rotations ==
    {0, 360 * Unit, -360 * Unit, 720 * Unit, 45 * Unit, 180 * Unit,
     (2 * Unit) \div 5, Unit \div 2, 360 * Unit - (2 * Unit) \div 5}

\* 2 and 10
TextHeights == {2 * Unit, 10 * Unit}

\* the empty text, AB and A\PB
BuildTexts == {<<>>, <<"A", "B">>, <<"A", BSL, "P", "B">>}

\* The values of HAlignment and those of VAlignment the entities get.
HAlignments == {"Left", "Center", "Right"}
VAlignments == {"Top", "Bottom"}

\* 0 (not declared), 2.0, 3.0
ReferenceWidths == {0, 2 * Unit, 3 * Unit}

\* DTextBuilder::color was called or not.
Colors == {None, Some("RED")}

\* What Uuid::new_v4() may draw.
Uuids == {"uuid-1", "uuid-2"}

\* The factors of scale.
ScaleFactors == {<<1, 1>>, <<2, 3>>}

\* The builders: a text-bearing entity and the colour option. Text and
\* Attrib carry a value, MText carries extended chunks, a primary text and a
\* reference rectangle width.
TextEntities ==
    [kind : {"Text", "Attrib"}, location : Locations, rotation : Rotations,
     text_height : TextHeights, value : BuildTexts,
     h_alignment : HAlignments, v_alignment : VAlignments, color : Colors]
    \cup
    {[kind |-> "MText", location |-> l, rotation |-> r, text_height |-> h,
      extended_text |-> <<IF t = <<>> THEN <<>> ELSE <<Head(t)>>>>,
      text |-> IF t = <<>> THEN <<>> ELSE Tail(t),
      h_alignment |-> ha, v_alignment |-> va,
      reference_rectangle_width |-> w, color |-> c] :
        l \in Locations, r \in Rotations, h \in TextHeights, t \in BuildTexts,
        ha \in HAlignments, va \in VAlignments, w \in ReferenceWidths,
        c \in Colors}

\* ----------------------------------------------------- build, step by step

Build ==
    /\ bpc = "entity"
    /\ \E uuid \in Uuids : dtext' = Some(build(ent, ent.color, uuid))
    /\ bpc' = "built"
    /\ UNCHANGED <<ent, dxml, bnds>>
    /\ UNCHANGED <<convVars, textVars, fontVars, scanVars, deskVars>>

Scale ==
    /\ bpc = "built"
    /\ \E f \in ScaleFactors : dtext' = Some(scale(dtext[1], f[1], f[2]))
    /\ bpc' = "scaled"
    /\ UNCHANGED <<ent, dxml, bnds>>
    /\ UNCHANGED <<convVars, textVars, fontVars, scanVars, deskVars>>

QueryBounds ==
    /\ bpc \in {"built", "scaled"}
    /\ bnds' = Some(Bounds(dtext[1]))
    /\ UNCHANGED <<ent, dtext, dxml, bpc>>
    /\ UNCHANGED <<convVars, textVars, fontVars, scanVars, deskVars>>

Emit ==
    /\ bpc \in {"built", "scaled"}
    /\ dxml' = Some(XmlOfDynamicText(dtext[1]))
    /\ bpc' = "emitted"
    /\ UNCHANGED <<ent, dtext, bnds>>
    /\ UNCHANGED <<convVars, textVars, fontVars, scanVars, deskVars>>

InitBuild ==
    /\ ent \in TextEntities
    /\ dtext = None
    /\ dxml = None
    /\ bnds = None
    /\ bpc = "entity"
    /\ ConvIdle /\ TextIdle /\ FontIdle /\ ScanIdle /\ DeskIdle

NextBuild ==
    \/ Build
    \/ Scale
    \/ QueryBounds
    \/ Emit

SpecBuild == InitBuild /\ [][NextBuild]_vars

\* ================== the two text functions, loop by loop, over UTF-8 bytes

\* The longest &str enumerated for the loops.
MaxScanLen == 3

\* A character of two bytes (U+00E9: C3 A9); every other character of the
\* enumerated texts is one byte, itself.
TwoByteChar == "U+00E9"
LeadByte == "C3"
ContinuationByte == "A9"

\* The characters of those texts: the backslash, the codes of a simple
\* escape, of a control block and of a stacked block, the terminator, a
\* stack separator and the character of two bytes.
ScanAlphabet == {BSL, "P", "f", "S", ";", "^", TwoByteChar}

\* A character of two bytes in front of an unterminated font block of
\* another; a stacked block of two of them; a font block with fields.
ScanExamples ==
    {<<TwoByteChar, BSL, "f", TwoByteChar>>,
     <<BSL, "S", TwoByteChar, "^", TwoByteChar, ";">>,
     <<"{", BSL, "f", TwoByteChar, "|", "b", ";", "A", "}", BSL>>}

ScanTexts ==
    UNION {[1..n -> ScanAlphabet] : n \in 0..MaxScanLen} \cup ScanExamples

\* str::as_bytes
RECURSIVE Bytes(_)
Bytes(s) ==
    IF s = <<>> THEN <<>>
    ELSE (IF Head(s) = TwoByteChar THEN <<LeadByte, ContinuationByte>>
          ELSE <<Head(s)>>) \o Bytes(Tail(s))

\* The characters of a slice that starts and ends on character boundaries.
RECURSIVE Chars(_)
Chars(b) ==
    IF b = <<>> THEN <<>>
    ELSE IF Head(b) = LeadByte THEN <<TwoByteChar>> \o Chars(Tail(Tail(b)))
    ELSE <<Head(b)>> \o Chars(Tail(b))

\* str::is_char_boundary at the byte offset k (from 0).
is_char_boundary(b, k) ==
    \/ k = 0
    \/ k = Len(b)
    \/ k < Len(b) /\ b[k + 1] # ContinuationByte

\* &input[start..i] panics unless start <= i <= len and both are character
\* boundaries.
SlicePanics(b, from, to) ==
    \/ from > to
    \/ to > Len(b)
    \/ ~is_char_boundary(b, from)
    \/ ~is_char_boundary(b, to)

\* buf.find(['^', '#']), buf.split_at(pos) and &b[1..] in the stacked arm:
\* whether one of the two cuts panics.
SplitPanics(buf) ==
    LET b == Bytes(buf)
        seps == {k \in 1..Len(b) : b[k] \in {"^", "#"}}
    IN  /\ seps # {}
        /\ LET pos == (CHOOSE k \in seps : \A q \in seps : k <= q) - 1
           IN  SlicePanics(b, 0, pos) \/ SlicePanics(b, pos + 1, Len(b))

\* FontBlockByte with the second byte of a character of two bytes taken for
\* a terminator as well.
FontBlockByte_StopsInsideChar(byte) == byte \notin {";", ContinuationByte}

\* bytes[i] != b';' : the byte belongs to the block.
FontBlockByte(byte) == byte # ";"

\* One iteration of the outer loop of normalize_mtext; the stacked arm may
\* panic in its cuts.
NormalizeStep ==
    /\ xpc = "normalize"
    /\ IF norm_pos > Len(scan_input)
       THEN /\ xpc' = "scan"
            /\ UNCHANGED <<norm_pos, norm_out>>
       ELSE LET it == Iteration(scan_input, norm_pos)
                stacked == /\ scan_input[norm_pos] = BSL
                           /\ Peek(scan_input, norm_pos + 1) = Some("S")
                buf == SubSeq(scan_input, norm_pos + 2,
                              BlockEnd(scan_input, norm_pos + 2) - 1)
            IN  IF stacked /\ SplitPanics(buf)
                THEN /\ xpc' = "panicked"
                     /\ UNCHANGED <<norm_pos, norm_out>>
                ELSE /\ norm_pos' = it.next
                     /\ norm_out' = norm_out \o it.emit
                     /\ xpc' = xpc
    /\ UNCHANGED <<scan_input, scan_i, scan_start, scan_result>>
    /\ UNCHANGED <<convVars, textVars, fontVars, buildVars, deskVars>>

\* One iteration of the outer loop of extract_mtext_font: the loop ends with
\* None, goes on, or enters the block behind a backslash-f. Reading a byte
\* past the end panics.
ScanStep ==
    /\ xpc = "scan"
    /\ LET b == Bytes(scan_input) IN
       IF ~InFontScan(scan_i + 1, Len(b))
       THEN /\ scan_result' = Some(None)
            /\ xpc' = "returned"
            /\ UNCHANGED <<scan_i, scan_start>>
       ELSE IF scan_i + 1 >= Len(b)
       THEN /\ xpc' = "panicked"
            /\ UNCHANGED <<scan_i, scan_start, scan_result>>
       ELSE IF b[scan_i + 1] = BSL /\ b[scan_i + 2] = "f"
       THEN /\ scan_i' = scan_i + 2
            /\ scan_start' = scan_i + 2
            /\ xpc' = "block"
            /\ UNCHANGED scan_result
       ELSE /\ scan_i' = scan_i + 1
            /\ UNCHANGED <<scan_start, scan_result, xpc>>
    /\ UNCHANGED <<scan_input, norm_pos, norm_out>>
    /\ UNCHANGED <<convVars, textVars, fontVars, buildVars, deskVars>>

\* One iteration of the inner loop, or its end: the block is cut out of the
\* input, which panics off a character boundary, and the family returned.
BlockStep ==
    /\ xpc = "block"
    /\ LET b == Bytes(scan_input) IN
       IF scan_i < Len(b) /\ FontBlockByte(b[scan_i + 1])
       THEN /\ scan_i' = scan_i + 1
            /\ UNCHANGED <<scan_result, xpc>>
       ELSE IF SlicePanics(b, scan_start, scan_i)
       THEN /\ xpc' = "panicked"
            /\ UNCHANGED <<scan_i, scan_result>>
       ELSE /\ scan_result' =
                   Some(FamilyOfBlock(Chars(SubSeq(b, scan_start + 1, scan_i))))
            /\ xpc' = "returned"
            /\ UNCHANGED scan_i
    /\ UNCHANGED <<scan_input, norm_pos, norm_out, scan_start>>
    /\ UNCHANGED <<convVars, textVars, fontVars, buildVars, deskVars>>

InitScan ==
    /\ scan_input \in ScanTexts
    /\ norm_pos = 1
    /\ norm_out = <<>>
    /\ scan_i = 0
    /\ scan_start = 0
    /\ scan_result = None
    /\ xpc = "normalize"
    /\ ConvIdle /\ TextIdle /\ FontIdle /\ BuildIdle /\ DeskIdle

NextScan ==
    \/ NormalizeStep
    \/ ScanStep
    \/ BlockStep

SpecScan == InitScan /\ [][NextScan]_vars

\* Each call runs on: a loop that can take an iteration takes it.
SpecScanLive == SpecScan /\ WF_vars(NextScan)

\* ================================================== the desktop front end

\* The most spawned tasks waiting to be polled.
MaxPending == 2

\* The files the dialog can return: two drawings and a file that does not
\* load.
Files == {"a/good.dxf", "b/other.dxf", "b/broken.dxf"}

\* Drawing::load_file of the file succeeds, and what it reads.
Loads(f) == f # "b/broken.dxf"
FileDrawing(f) == IF f = "a/good.dxf" THEN <<"Circle">> ELSE <<"Line", "Text">>

\* Path::new(path).parent()
Parent(f) == IF f = "a/good.dxf" THEN "a" ELSE "b"

\* The worker of the preview: the counters over the entities of the file,
\* elapsed_ms 0.
PreviewStats(f) == ConversionStats(CountEntities(ZeroCounts, FileDrawing(f)), 0)

\* ClickIgnored with the test left out.
ClickIgnored_Never(processing) == FALSE

\* if is_processing() { return; }
ClickIgnored(processing) == processing

\* What .join() gives for the worker of the task: it returned Ok, returned
\* Err, or panicked.
WorkerOutcomes(task) ==
    (IF Loads(task.path) THEN {"ok"} ELSE {}) \cup
    (IF task.kind = "convert" \/ ~Loads(task.path) THEN {"err"} ELSE {}) \cup
    {"panic"}

\* The click on "Seleccionar DXF...": the dialog is cancelled or returns a
\* file, whose preview task is spawned.
PickClick ==
    /\ Len(tasks) < MaxPending
    /\ IF ClickIgnored(is_processing)
       THEN UNCHANGED <<selected_path, status, preview_stats, tasks>>
       ELSE \/ UNCHANGED <<selected_path, status, preview_stats, tasks>>
            \/ \E path \in Files :
                  /\ selected_path' = Some(path)
                  /\ status' = ""
                  /\ preview_stats' = None
                  /\ tasks' = Append(tasks, [kind |-> "preview", path |-> path,
                                             v |-> FALSE])
    /\ UNCHANGED <<last_output_dir, verbose_signal, is_processing>>
    /\ UNCHANGED <<convVars, textVars, fontVars, buildVars, scanVars>>

\* The input of the verbose check box: e.value() == "on", true or false.
VerboseInput ==
    /\ \E on \in BOOLEAN : verbose_signal' = on
    /\ UNCHANGED <<selected_path, last_output_dir, is_processing, status,
                   preview_stats, tasks>>
    /\ UNCHANGED <<convVars, textVars, fontVars, buildVars, scanVars>>

\* The click on "Convertir a ELMT".
ConvertClick ==
    /\ Len(tasks) < MaxPending
    /\ IF ~ClickIgnored(is_processing) /\ selected_path # None
       THEN /\ is_processing' = TRUE
            /\ status' = "Convirtiendo..."
            /\ tasks' = Append(tasks, [kind |-> "convert",
                                       path |-> selected_path[1],
                                       v |-> verbose_signal])
       ELSE UNCHANGED <<is_processing, status, tasks>>
    /\ UNCHANGED <<selected_path, last_output_dir, verbose_signal,
                   preview_stats>>
    /\ UNCHANGED <<convVars, textVars, fontVars, buildVars, scanVars>>

\* The oldest spawned task is polled: it has no await, so it runs to its
\* end, through the join of its worker to the signals it sets.
RunTask ==
    /\ tasks # <<>>
    /\ LET task == Head(tasks) IN
       \E res \in WorkerOutcomes(task) :
          IF task.kind = "preview"
          THEN /\ preview_stats' = IF res = "ok"
                                   THEN Some(PreviewStats(task.path))
                                   ELSE preview_stats
               /\ status' = CASE res = "ok" -> status
                              [] res = "err" -> "Error leyendo DXF"
                              [] res = "panic" ->
                                     "Error: fallo interno leyendo DXF"
               /\ UNCHANGED <<last_output_dir, is_processing>>
          ELSE /\ last_output_dir' =
                      IF res = "ok" /\ ~task.v
                      THEN Some(Parent(selected_path[1]))
                      ELSE last_output_dir
               /\ status' = CASE res = "ok" -> "OK"
                              [] res = "err" -> "Error"
                              [] res = "panic" ->
                                     "Error: fallo interno al convertir"
               /\ is_processing' = FALSE
               /\ UNCHANGED preview_stats
    /\ tasks' = Tail(tasks)
    /\ UNCHANGED <<selected_path, verbose_signal>>
    /\ UNCHANGED <<convVars, textVars, fontVars, buildVars, scanVars>>

InitDesk ==
    /\ selected_path = None
    /\ last_output_dir = None
    /\ verbose_signal = FALSE
    /\ is_processing = FALSE
    /\ status = ""
    /\ preview_stats = None
    /\ tasks = <<>>
    /\ ConvIdle /\ TextIdle /\ FontIdle /\ BuildIdle /\ ScanIdle

NextDesk ==
    \/ PickClick
    \/ VerboseInput
    \/ ConvertClick
    \/ RunTask

SpecDesk == InitDesk /\ [][NextDesk]_vars

\* A spawned task is polled in the end.
SpecDeskLive == SpecDesk /\ WF_vars(RunTask)

\* ============================================================== claims

\* The number of entities of kind k in the entity list es.
Occurrences(es, k) == Cardinality({i \in DOMAIN es : es[i] = k})

\* The counting pass of the current drawing has run.
Counted ==
    pc \in {"counted", "generated", "created", "written", "done",
            "main_counted", "main_created", "main_written"}

\* The kinds a converter exists for: the geometry kinds and the three
\* text-bearing kinds of the text normaliser.
TextBearingKinds == {"Text", "MText", "AttributeDefinition"}
GeometryKinds == {"Circle", "Line", "Arc", "Spline", "Ellipse", "Polyline",
                  "LwPolyline", "Solid"}

\* C1: after the counting pass of convert_dxf_file and of main, every entity is
\* counted exactly once: each of the ten per-kind counters equals the number
\* of entities of its kind, a block-insert is counted in blocks, unsupported
\* holds the entities of every other kind, and the eleven counters sum to the
\* number of entities.
C1_EveryEntityCountedOnce ==
    Counted =>
        /\ counts.circles = Occurrences(drawing, "Circle")
        /\ counts.lines = Occurrences(drawing, "Line")
        /\ counts.arcs = Occurrences(drawing, "Arc")
        /\ counts.splines = Occurrences(drawing, "Spline")
        /\ counts.texts = Occurrences(drawing, "Text")
        /\ counts.ellipses = Occurrences(drawing, "Ellipse")
        /\ counts.polylines = Occurrences(drawing, "Polyline")
        /\ counts.lwpolylines = Occurrences(drawing, "LwPolyline")
        /\ counts.solids = Occurrences(drawing, "Solid")
        /\ counts.blocks = Occurrences(drawing, "Insert")
        /\ counts.unsupported =
               Cardinality({i \in DOMAIN drawing : drawing[i] \notin CountedKinds})
        /\ counts.circles + counts.lines + counts.arcs + counts.splines
             + counts.texts + counts.ellipses + counts.polylines
             + counts.lwpolylines + counts.solids + counts.blocks
             + counts.unsupported = Len(drawing)

\* C1 witness: the scenario drawing counted by convert_dxf_file.
C1_Witness ==
    /\ caller = "lib" /\ pc = "counted" /\ drawing = ScenarioDrawing
    /\ counts = [ZeroCounts EXCEPT !.circles = 3, !.lines = 2, !.splines = 1,
                                   !.blocks = 1]

\* C2 as claimed: convert_dxf_file counts as unsupported only entities whose
\* kind has no converter, so never an entity of a text-bearing kind.
C2_UnsupportedOnlyWithoutConverter ==
    (caller = "lib" /\ Counted) =>
        counts.unsupported <=
            Cardinality({i \in DOMAIN drawing :
                            drawing[i] \notin GeometryKinds \cup TextBearingKinds})

\* C3: a successful call of convert_dxf_file produces exactly one of the two
\* outputs: under verbose a non-empty markup text in the result and no output
\* file created or written; without verbose one output file created and
\* written and no markup text in the result.
C3_ExactlyOneOutput ==
    (caller = "lib" /\ pc = "done") =>
        /\ Len(result) = 1
        /\ options.verbose =>
              /\ Len(result[1].xml_content) = 1
              /\ Len(result[1].xml_content[1]) > 0
              /\ fs_created = 0 /\ fs_written = 0
        /\ ~options.verbose =>
              /\ result[1].xml_content = None
              /\ fs_created = 1 /\ fs_written = 1

\* C3 witness: a verbose call has returned its markup.
C3_Witness ==
    /\ caller = "lib" /\ pc = "done" /\ options.verbose
    /\ result # None /\ result[1].xml_content # None /\ fs_created = 0

\* C4 as claimed: the result of convert_dxf_file holds the statistics exactly
\* when the info option is set.
C4_StatsIffInfo ==
    (caller = "lib" /\ pc = "done") =>
        ((result[1].stats # None) <=> options.info)

\* The text in front of position k, and the text from position k on.
Before(s, k) == SubSeq(s, 1, k - 1)
From(s, k) == SubSeq(s, k, Len(s))

\* The letters that make a backslash a code.
CodeLetters == {"P", "~", BSL, "f", "H", "W", "S"}

\* A text with no brace and no backslash that starts a code.
Plain(t) ==
    \A p \in DOMAIN t :
        /\ t[p] \notin {"{", "}"}
        /\ t[p] = BSL => (p = Len(t) \/ t[p + 1] \notin CodeLetters)

\* C5 as claimed: normalising the normalised text returns it unchanged, for
\* every raw text.
C5_Idempotent ==
    tpc = "normalized" => normalize_mtext(value) = value

\* C5 as amended: normalising a plain text (no brace, no backslash followed by
\* P, ~, backslash, f, H, W or S) returns it unchanged, so normalisation is
\* idempotent on exactly the raw texts whose normalised text is plain.
C5_IdempotentOnPlainText ==
    tpc = "normalized" =>
        /\ Plain(value) <=> normalize_mtext(value) = value
        /\ Plain(raw) => value = raw

\* C5 witness: an escaped backslash left a literal backslash in a plain
\* normalised text, and normalising that again changes nothing.
C5_Witness ==
    /\ tpc = "normalized" /\ raw = <<BSL, BSL, "A">> /\ value = <<BSL, "A">>
    /\ Plain(value) /\ normalize_mtext(value) = value

\* C6: wherever the scan meets \P, \~ or \\ outside a block, it pushes exactly
\* one character (newline, space, backslash) and consumes exactly the two
\* characters; every other character that is no backslash and no brace is
\* copied in place; A\PB gives A, newline, B.
C6_SimpleEscapes ==
    tpc = "normalized" =>
        /\ \A k \in LoopHeads(raw) :
              /\ (raw[k] = BSL /\ k < Len(raw) /\ raw[k + 1] = "P") =>
                    value = normalize_mtext(Before(raw, k)) \o <<NL>>
                              \o normalize_mtext(From(raw, k + 2))
              /\ (raw[k] = BSL /\ k < Len(raw) /\ raw[k + 1] = "~") =>
                    value = normalize_mtext(Before(raw, k)) \o <<" ">>
                              \o normalize_mtext(From(raw, k + 2))
              /\ (raw[k] = BSL /\ k < Len(raw) /\ raw[k + 1] = BSL) =>
                    value = normalize_mtext(Before(raw, k)) \o <<BSL>>
                              \o normalize_mtext(From(raw, k + 2))
              /\ raw[k] \notin {BSL, "{", "}"} =>
                    value = normalize_mtext(Before(raw, k)) \o <<raw[k]>>
                              \o normalize_mtext(From(raw, k + 1))
        /\ raw = NewlineText => value = <<"A", NL, "B">>

\* C6 witness: A\PB normalised.
C6_Witness ==
    tpc = "normalized" /\ raw = NewlineText /\ value = <<"A", NL, "B">>

\* C7: a control block \f, \H or \W met outside a block is discarded from the
\* code letter through its terminating ';' and pushes nothing, and the text
\* after the ';' is normalised as usual; the Garamond text gives Sofrel.
C7_ControlBlockDiscarded ==
    tpc = "normalized" =>
        /\ \A k \in LoopHeads(raw) :
              (raw[k] = BSL /\ k < Len(raw) /\ raw[k + 1] \in {"f", "H", "W"}) =>
                  LET semis == {j \in (k + 2)..Len(raw) : raw[j] = ";"}
                  IN  semis # {} =>
                        LET e == CHOOSE j \in semis : \A q \in semis : j <= q
                        IN  value = normalize_mtext(Before(raw, k))
                                      \o normalize_mtext(From(raw, e + 1))
        /\ raw = GaramondText => value = <<"S", "o", "f", "r", "e", "l">>

\* C7 witness: the Garamond text normalised.
C7_Witness ==
    /\ tpc = "normalized" /\ raw = GaramondText
    /\ value = <<"S", "o", "f", "r", "e", "l">>

\* C8: a stacked block \S met outside a block pushes its content (up to the
\* terminating ';', or the rest of the text when there is none) with only the
\* first '^' or '#' replaced by '/', unchanged when it holds neither; the
\* backslash, the S and the ';' are not pushed; \S1^2; gives 1/2.
C8_StackedBlock ==
    tpc = "normalized" =>
        /\ \A k \in LoopHeads(raw) :
              (raw[k] = BSL /\ k < Len(raw) /\ raw[k + 1] = "S") =>
                  LET semis == {j \in (k + 2)..Len(raw) : raw[j] = ";"}
                      e == IF semis = {} THEN Len(raw) + 1
                           ELSE CHOOSE j \in semis : \A q \in semis : j <= q
                      content == SubSeq(raw, k + 2, e - 1)
                      firsts == {p \in DOMAIN content :
                                    /\ content[p] \in {"^", "#"}
                                    /\ \A q \in 1..(p - 1) :
                                          content[q] \notin {"^", "#"}}
                      pushed == [p \in DOMAIN content |->
                                    IF p \in firsts THEN "/" ELSE content[p]]
                  IN  value = normalize_mtext(Before(raw, k)) \o pushed
                                \o normalize_mtext(From(raw, e + 1))
        /\ raw = FractionText => value = <<"1", "/", "2">>

\* C8 witness: \S1^2; normalised.
C8_Witness ==
    tpc = "normalized" /\ raw = FractionText /\ value = <<"1", "/", "2">>

\* C9: a backslash met outside a block that ends the text or is followed by a
\* character other than P, ~, backslash, f, H, W, S pushes one backslash, and
\* the character after it is scanned as ordinary input.
C9_UnknownCodeKept ==
    tpc = "normalized" =>
        \A k \in LoopHeads(raw) :
            (raw[k] = BSL /\ (k = Len(raw) \/ raw[k + 1] \notin CodeLetters)) =>
                /\ value = normalize_mtext(Before(raw, k)) \o <<BSL>>
                             \o normalize_mtext(From(raw, k + 1))
                /\ k < Len(raw) => (k + 1) \in LoopHeads(raw)

\* C9 witness: an unknown code and a trailing backslash, both kept.
C9_Witness ==
    tpc = "normalized" /\ raw = <<BSL, "A", BSL>> /\ value = <<BSL, "A", BSL>>

\* C10 as claimed: the normalised text holds no brace, for every raw text.
C10_NoBraces ==
    tpc = "normalized" => \A p \in DOMAIN value : value[p] \notin {"{", "}"}

\* ------------------------------------------------------------------- C11

\* The positions of the raw text where a backslash is followed by an f.
FontCodes(r) == {p \in 1..(Len(r) - 1) : r[p] = BSL /\ r[p + 1] = "f"}

SetMin(S) == CHOOSE x \in S : \A y \in S : x <= y
SetMax(S) == CHOOSE x \in S : \A y \in S : y <= x

\* The part of r from position lo that ends before the first occurrence of
\* the character c at or after lo, the rest of r when there is none.
UpTo(r, lo, c) ==
    LET hits == {q \in lo..Len(r) : r[q] = c} IN
    SubSeq(r, lo, IF hits = {} THEN Len(r) ELSE SetMin(hits) - 1)

\* s without the characters of the set at its two ends.
Strip(s, set) ==
    LET keep == {i \in DOMAIN s : s[i] \notin set} IN
    IF keep = {} THEN <<>> ELSE SubSeq(s, SetMin(keep), SetMax(keep))

\* C11: the family of the DynamicText built from an MText is that of the
\* first backslash-f block of the raw text (the extended chunks in order,
\* then the primary text): the block runs to the next ';' or to the end of
\* the text, the family is its part before the first '|', stripped of white
\* space and then of braces; without such a block, or with an empty family,
\* the default family is kept. The block may sit anywhere, the end included.
C11_FamilyOfFirstFontBlock ==
    fpc = "built" =>
        LET r == RawOf(mtxt) IN
        IF FontCodes(r) = {} THEN family = DefaultFamily
        ELSE LET p == SetMin(FontCodes(r))
                 block == UpTo(r, p + 2, ";")
                 field == UpTo(block, 1, "|")
                 name == Strip(Strip(field, Whitespace), Braces)
             IN family = IF name = <<>> THEN DefaultFamily ELSE name

\* C11 witness: the block is cut over the chunks and ends the text.
C11_Witness ==
    /\ fpc = "built"
    /\ mtxt = [extended_text |-> << <<BSL>>, <<"f">> >>, text |-> <<"A">>]
    /\ family = <<"A">>

\* ------------------------------------------------------------------- C12

\* |r| is less than half a degree below, or at most half a degree above, a
\* multiple of 360 degrees (the half above excluded, the half below included).
NearFullTurn(r) ==
    \E k \in 0..(Abs(r) \div (360 * Unit) + 1) :
        /\ 360 * k * Unit - Unit \div 2 <= Abs(r)
        /\ Abs(r) < 360 * k * Unit + Unit \div 2

C13_RotationShiftedNotWrapped ==
    bpc # "entity" =>
        /\ dtext[1].rotation \in {0, ent.rotation - 180 * Unit}
        /\ (0 <= ent.rotation /\ ent.rotation < 360 * Unit) =>
               (-180 * Unit <= dtext[1].rotation
                    /\ dtext[1].rotation < 180 * Unit)
        /\ (ent.rotation >= Unit \div 2 /\ ent.rotation < 180 * Unit) =>
               dtext[1].rotation < 0
        /\ bpc = "emitted" => dxml[1].rotation = two_dec(dtext[1].rotation)

\* C13 witness: 45 degrees is stored and emitted as -135.
C13_Witness ==
    /\ bpc = "emitted"
    /\ ent.rotation = 45 * Unit
    /\ dtext[1].rotation = -135 * Unit
    /\ dxml[1].rotation = two_dec(-135 * Unit)

\* C13 as claimed: the stored and the emitted rotation lie in [0, 360).
C13_RotationInRange ==
    bpc # "entity" =>
        /\ 0 <= dtext[1].rotation /\ dtext[1].rotation < 360 * Unit
        /\ bpc = "emitted" =>
               (0 <= dxml[1].rotation.two_dec
                    /\ dxml[1].rotation.two_dec < 360 * Unit)

\* ------------------------------------------------------------------- C14

\* C14: the emitted position follows the formulas, stated here without a
\* division. With s the point size, n the number of graphemes and r the
\* declared reference width, the width w is r when r > 2.0 and otherwise
\* satisfies 4 w = 3 n s; the emitted x satisfies
\* 40 ex = 40 x + 20 - 5 s - 162 - 40 shift, the shift being 0 for left,
\* w / 2 for centre and w for right; the emitted y satisfies
\* 10 ey = 10 y + 5 - (14 s + 52) + 10 s whatever the vertical alignment.
C14_EmittedPosition ==
    bpc = "emitted" =>
        LET t == dtext[1]
            s == t.font.point_size
            n == Len(t.text)
            r == t.reference_rectangle_width
            ex == dxml[1].x.two_dec
            ey == dxml[1].y.two_dec
            w4 == IF r > 2 * Unit THEN 4 * r ELSE 3 * n * s
            shift40 == CASE t.h_alignment = "Left" -> 0
                         [] t.h_alignment = "Center" -> 5 * w4
                         [] t.h_alignment = "Right" -> 10 * w4
        IN  /\ 40 * ex = 40 * t.x + 20 * Unit - 5 * s - 162 * Unit - shift40
            /\ 10 * ey = 10 * t.y + 5 * Unit - (14 * s + 52 * Unit) + 10 * s
            /\ dxml[1].x = two_dec(ex) /\ dxml[1].y = two_dec(ey)

\* C14 witness: a centred MText whose declared width is exactly 2.0, so the
\* width is the estimate 3 * 10 * 0.75 = 22.5: x = 1.5 + 0.5 - 1.25 - 4.05
\* - 11.25 = -14.55, y = -3 + 0.5 - 19.2 + 10 = -11.7.
C14_Witness ==
    /\ bpc = "emitted"
    /\ ent.kind = "MText"
    /\ ent.reference_rectangle_width = 2 * Unit
    /\ dtext[1].h_alignment = "Center"
    /\ dtext[1].text = <<"A", NL, "B">>
    /\ dtext[1].font.point_size = 10 * Unit
    /\ dtext[1].x = (3 * Unit) \div 2
    /\ dtext[1].y = -3 * Unit
    /\ dxml[1].x = two_dec(-((1455 * Unit) \div 100))
    /\ dxml[1].y = two_dec(-((117 * Unit) \div 10))

\* ------------------------------------------------------------------- C15

\* The part of the emitted y that does not come from the stored y:
\* 0.5 - (7/5 s + 26/5) + s, times 10.
YOffset10(s) == 5 * Unit - (14 * s + 52 * Unit) + 10 * s

\* C15: for a Text, an MText and an Attrib alike, the DynamicText as built
\* holds the source x and z and the negated source y; the emitted y is the
\* stored y plus an offset that depends on the point size only, so it
\* carries the one negation of build and no second one.
C15_YNegatedOnce ==
    /\ bpc = "built" =>
           /\ dtext[1].x = ent.location.x
           /\ dtext[1].y = -ent.location.y
           /\ dtext[1].z = ent.location.z
    /\ bpc = "emitted" =>
           /\ 10 * dxml[1].y.two_dec
                  = 10 * dtext[1].y + YOffset10(dtext[1].font.point_size)
           /\ \E f \in ScaleFactors : dtext[1].y = -ent.location.y * f[2]
           /\ dxml[1].z = two_dec(ent.location.z)

\* C15 witness: an attribute at y = 3 is stored at y = -3 and emitted,
\* unscaled, at -3 + 0.5 - (2.8 + 5.2) + 2 = -8.5.
C15_Witness ==
    /\ bpc = "emitted"
    /\ ent.kind = "Attrib"
    /\ ent.location.y = 3 * Unit
    /\ ent.text_height = 2 * Unit
    /\ dtext[1].y = -3 * Unit
    /\ dxml[1].y = two_dec(-((17 * Unit) \div 2))

\* ------------------------------------------------------------------- C20

\* C20: once built, every step keeps the uuid, the text, z, the rotation,
\* both alignments, the colour and the declared reference rectangle width
\* of the DynamicText; the step of scale multiplies x and the point size by
\* the first factor and y by the second; every other step (a bound query,
\* the emission) leaves the whole DynamicText as it is.
C20_OnlyScaleChangesAndNotTheUuid ==
    [][bpc # "entity" =>
          /\ dtext'[1].uuid = dtext[1].uuid
          /\ dtext'[1].text = dtext[1].text
          /\ dtext'[1].z = dtext[1].z
          /\ dtext'[1].rotation = dtext[1].rotation
          /\ dtext'[1].h_alignment = dtext[1].h_alignment
          /\ dtext'[1].v_alignment = dtext[1].v_alignment
          /\ dtext'[1].color = dtext[1].color
          /\ dtext'[1].reference_rectangle_width
                 = dtext[1].reference_rectangle_width
          /\ IF bpc = "built" /\ bpc' = "scaled"
             THEN \E f \in ScaleFactors :
                      /\ dtext'[1].x = dtext[1].x * f[1]
                      /\ dtext'[1].y = dtext[1].y * f[2]
                      /\ dtext'[1].font.point_size
                             = dtext[1].font.point_size * f[1]
             ELSE dtext' = dtext]_vars

\* C20 witness: built with the second uuid, scaled by (2, 3), queried and
\* emitted, the DynamicText and its element still carry that uuid.
C20_Witness ==
    /\ bpc = "emitted"
    /\ bnds = Some([left_bound |-> 3 * Unit, right_bound |-> Unit,
                    top_bound |-> -9 * Unit, bot_bound |-> Unit])
    /\ ent.location.y = 3 * Unit
    /\ ent.kind = "MText"
    /\ ent.reference_rectangle_width = 3 * Unit
    /\ dtext[1].uuid = "uuid-2"
    /\ dtext[1].x = 3 * Unit
    /\ dtext[1].y = -9 * Unit
    /\ dtext[1].font.point_size = 2 * ent.text_height
    /\ dtext[1].reference_rectangle_width = 3 * Unit
    /\ dxml[1].uuid = "uuid-2"

\* ------------------------------------------------------------------- C16

\* The friendly name the examples of paths have: the stem a.b of d/a.b.dxf,
\* the whole path of .. which has no stem.
ExpectedName(path) ==
    IF path = DrawingPath THEN <<"a", ".", "b">> ELSE <<".", ".">>

\* C16: a load failure of convert_dxf_file comes with no ConversionResult
\* and a description naming the friendly name of the file (its stem, the
\* whole path when it has none), before any entity is counted, any
\* Definition is built and any output file is created; the failures of
\* creating and of writing the output carry a description that is not that
\* of a load failure of any file.
C16_LoadFailureNamedAndFirst ==
    (caller = "lib" /\ pc = "failed") =>
        /\ result = None
        /\ err = "load" =>
               /\ message[1] = "Failed to load "
               /\ message[2] = ExpectedName(file_path)
               /\ counts = ZeroCounts /\ drawing = <<>> /\ q_elmt = None
               /\ xml_content = None
               /\ fs_created = 0 /\ fs_written = 0
        /\ err # "load" =>
               /\ err \in {"create", "write"}
               /\ \A p \in Paths : message # LoadFailure(ExpectedName(p))
               /\ message[1] # "Failed to load "
               /\ drawing \in Drawings /\ q_elmt # None

\* C16 witness: the load of d/a.b.dxf failed and the failure names a.b.
C16_Witness ==
    /\ caller = "lib" /\ pc = "failed" /\ err = "load"
    /\ file_path = DrawingPath
    /\ message[2] = <<"a", ".", "b">>
    /\ result = None

\* ------------------------------------------------------------------- C17

\* C17 as claimed: a load failure is fatal for its file only, so main does
\* not end on a load failure while file names are left after the failing one.
C17_LaterFilesStillConverted ==
    (caller = "cli" /\ pc = "main_err" /\ err = "load") => file_idx = n_files

\* ------------------------------------------------------------------- C18

\* C18 as claimed: a call of convert_dxf_file that fails has left no output
\* file behind.
C18_NoOutputLeftOnFailure ==
    (caller = "lib" /\ pc = "failed") => fs_created = 0

\* ------------------------------------------------------------------- C19

\* C19 as claimed: the spline step handed to Definition::new lies in 1..200.
C19_SplineStepInRange ==
    q_elmt # None => (1 <= q_elmt[1].spline_step /\ q_elmt[1].spline_step <= 200)

\* ------------------------------------------------------------------- C21

\* A control or stacked block opens at position p of s and no ';' follows.
UnterminatedAt(s, p) ==
    /\ s[p] = BSL
    /\ Peek(s, p + 1) \in {Some("f"), Some("H"), Some("W"), Some("S")}
    /\ \A q \in (p + 2)..Len(s) : s[q] # ";"

\* C21: on every input, a lone backslash at the end, blocks without a ';'
\* and characters of two bytes included, neither function panics; the
\* output of normalize_mtext is never longer than the input read so far; a
\* block without a ';' takes the rest of the input in normalize_mtext and
\* in extract_mtext_font; both loops end, with what the functions compute.
C21_TotalAndNotLonger ==
    /\ [](xpc # "panicked")
    /\ [](Len(norm_out) <= Len(scan_input) /\ Len(norm_out) < norm_pos)
    /\ [][(/\ xpc = "normalize"
           /\ norm_pos <= Len(scan_input)
           /\ UnterminatedAt(scan_input, norm_pos))
              => norm_pos' > Len(scan_input)]_vars
    /\ []((/\ xpc = "returned"
           /\ scan_start > 0
           /\ \A k \in (scan_start + 1)..Len(Bytes(scan_input)) :
                  Bytes(scan_input)[k] # ";")
              => scan_i = Len(Bytes(scan_input)))
    /\ [](xpc = "returned" =>
              /\ norm_out = normalize_mtext(scan_input)
              /\ scan_result = Some(extract_mtext_font(scan_input)))
    /\ <>(xpc = "returned")

\* C21 witness: a character of two bytes, then a font block of another one
\* that nothing terminates: the text keeps the first, the family is the
\* second, and the scan stopped at the last of the six bytes.
C21_Witness ==
    /\ xpc = "returned"
    /\ scan_input = <<TwoByteChar, BSL, "f", TwoByteChar>>
    /\ norm_out = <<TwoByteChar>>
    /\ scan_result = Some(Some(<<TwoByteChar>>))
    /\ scan_i = 6

\* ------------------------------------------------------------------- C22

\* The conversions started and not yet finished.
ConversionsPending ==
    Cardinality({k \in DOMAIN tasks : tasks[k].kind = "convert"})

\* C22: at most one conversion is in progress, and is_processing is true
\* exactly while one is; while it is true the only steps that change a
\* signal other than verbose are the polls of a task, so a click on either
\* button starts nothing and changes nothing; every conversion, its worker
\* having returned Ok or Err or panicked, ends with is_processing false and
\* a status other than "Convirtiendo...".
C22_OneConversionAndItEnds ==
    /\ [](ConversionsPending <= 1 /\ (is_processing <=> ConversionsPending = 1))
    /\ [][(is_processing /\ tasks' # Tail(tasks)) =>
              UNCHANGED <<selected_path, last_output_dir, is_processing,
                          status, preview_stats, tasks>>]_vars
    /\ [][(is_processing /\ ~is_processing') =>
              status' \in {"OK", "Error", "Error: fallo interno al convertir"}]_vars
    /\ (is_processing ~> (~is_processing /\ status # "Convirtiendo..."))

\* C22 witness: the worker of a conversion panicked and the task still
\* cleared is_processing and replaced the status.
C22_Witness ==
    /\ ~is_processing
    /\ status = "Error: fallo interno al convertir"
    /\ selected_path = Some("a/good.dxf")
    /\ tasks = <<>>

\* ------------------------------------------------------------------- C23

\* C23 as claimed: the statistics shown are those of the selected file.
C23_PreviewOfSelectedFile ==
    preview_stats # None =>
        /\ selected_path # None
        /\ Loads(selected_path[1])
        /\ preview_stats = Some(PreviewStats(selected_path[1]))

====
